---- MODULE Spec2Model ----
(***************************************************************************)
(* Model of the connection wrapper of v-braun/nett (src/conn.go).          *)
(*                                                                         *)
(* Two endpoints "A" and "B" of one duplex stream.  Every goroutine that   *)
(* touches a Connection is a thread <<endpoint, kind, index>>:             *)
(*   "read"   the goroutine Wrap starts (runRead),                         *)
(*   "closer" the goroutine runRead's defer starts (notifyClose),          *)
(*   "async"  the goroutines SendAsync starts,                             *)
(*   "call"   application goroutines calling the public methods.           *)
(* Each statement of conn.go that reads or writes shared state (the        *)
(* stream, the mutex, the handler slots, the wait group) is one action.    *)
(*                                                                         *)
(* The stream and the framing function are external collaborators.  In     *)
(* the modes "mock" and "tcp" endpoint A alone is wrapped.  In mode "mock" *)
(* the stream is one that takes no note of Close, as the mockConn of the   *)
(* tests: Write and the framing function return what they are set up to    *)
(* return, before and after Close.  In mode "tcp" the stream is a TCP      *)
(* connection with an unwrapped peer: once it is closed, Write and Read    *)
(* fail with "use of closed network connection".  In mode "pipe" both      *)
(* endpoints are wrapped with ReadLineReader over one TCP connection.      *)
(*                                                                         *)
(* conn.wg is a sync.WaitGroup: a counter and the number of goroutines     *)
(* blocked in Wait.  Add and Wait panic on the misuse the WaitGroup        *)
(* detects, and a panic ends the process: no goroutine takes another step. *)
(***************************************************************************)
EXTENDS Integers, Sequences, FiniteSets, TLC

\* ------------------------------------------------------------------ bounds
\* goroutines SendAsync may start per endpoint
MaxAsync == 1
\* non-empty messages the framing function of a single wrapped endpoint
\* returns
MaxData == 2
\* calls of Close, Send and SendAsync the first application goroutine makes
\* on a single wrapped endpoint
MaxOps == 1
\* lines endpoint A sends in mode "pipe"
MaxSend == 2

\* ------------------------------------------------------------------ values
Conns == {"A", "B"}
Peer(c) == IF c = "A" THEN "B" ELSE "A"

\* the line terminator of ReadLineReader
NL == 10
\* one-letter lines: Line(1) stands for "ping\n", Line(0) for "pong\n"
Line(i) == <<i, NL>>
Ping == Line(1)
Pong == Line(0)
\* the k-th message the framing function of a single wrapped endpoint returns
MockMsg(k) == <<k>>

\* error values: "nil", a temporary net.Error, io.EOF, the *net.OpError
\* "use of closed network connection", and two plain errors
ErrTemp == "temp"
ErrEOF == "EOF"
ErrClosed == "closed"
ErrRead == "READ"
ErrWrite == "WRITE"

\* handler values: the three package-level no-ops and application handlers.
\* "rec" only takes note of the call; "reply" answers with Send(Pong);
\* "rereg" registers "rec" in the slot it was called for, by the On* method
\* of the same Connection; "closing" calls Close() on the same Connection
Nop == "nop"
NilHandler == "nil"

\* application goroutines <<"app", "call", i>> call the public methods of
\* either endpoint
Callers == {1, 2}
CallTs == {<<"app", "call", i>> : i \in Callers}
Threads ==
    {<<c, "read", 0>> : c \in Conns} \cup {<<c, "closer", 0>> : c \in Conns}
    \cup {<<c, "async", i>> : c \in Conns, i \in 1..MaxAsync}
    \cup CallTs
Kind(t) == t[2]
\* the holder of an unlocked mutex
Free == <<"none", "none", 0>>
ReadT(c) == <<c, "read", 0>>
CloserT(c) == <<c, "closer", 0>>
AsyncTs(c) == {<<c, "async", i>> : i \in 1..MaxAsync}

\* the calls an application goroutine may make: <<method, argument, endpoint>>.
\* <<"Wait", n, c>> is the application's own wg.Wait() for n handler calls
CloseOp(c) == <<"Close", 0, c>>
SendOps(c, d) == {<<"Send", d, c>>, <<"SendAsync", d, c>>}
RegOps(c) == {<<"OnErr", "rec", c>>, <<"OnClosed", "rec", c>>}
DataRegOps(c) == {<<"OnData", "rec", c>>, <<"OnData", "reply", c>>}
AllRegOps(c, h) == {<<"OnData", h, c>>, <<"OnErr", h, c>>, <<"OnClosed", h, c>>}

VARIABLES
    mode,       \* "mock", "tcp" or "pipe"
    quota,      \* quota[c]: non-empty messages the framing function of c still returns in the modes "mock" and "tcp"
    pc,         \* pc[t]: the statement thread t executes next
    ret,        \* ret[t]: where the public method t is in returns to
    nret,       \* nret[t]: where the notify* call t is in returns to
    nslot,      \* nslot[t]: the slot the notify* call of t dispatches
    hnd,        \* hnd[t]: local "handler" of notify*, or the argument of On*
    ldata,      \* ldata[t]: local "data"
    lerr,       \* lerr[t]: local "err" of runRead, and the err notifyErr is called with
    sret,       \* sret[t]: what the last Send of application goroutine t returned
    todo,       \* todo[t]: the calls application goroutine t still makes, a set to choose from for each
    cur,        \* cur[t]: the endpoint whose method application goroutine t called last
    onData, onErr, onClosed,    \* the handler slots of conn
    mutex,      \* conn.mutex: the thread holding it, or Free
    wg,         \* conn.wg: the wait group's counter
    waiters,    \* conn.wg: the goroutines blocked in Wait that Done has not released
    closed,     \* closed[c]: inner.Close() has been called on endpoint c
    inq,        \* inq[c]: bytes written by the peer that c has not read
    rbuf,       \* rbuf[c]: "buffer" of the running ReadLineReader call
    decoded,    \* history: non-empty messages the framing function returned
    dataLog,    \* history: <<handler, data>> of every data-handler call
    errLog,     \* history: <<handler, err, calling thread kind>> of every error-handler call
    closedCalls,\* history: number of closed-handler calls
    inData,     \* history: data-handler calls that have not returned
    werr,       \* werr[t]: local "err" of Send, what inner.Write returned
    writes,     \* history: number of inner.Write calls of async goroutine t
    sendLog,    \* history: <<method, data>> of every Send and SendAsync call of the application on c
    closeSnap,  \* history: the async goroutines started before the last call of t, if that was Close
    lastReg     \* history: lastReg[c][slot] is the argument of the On* call that returned last, "none" before the first

locals == <<pc, ret, nret, nslot, hnd, ldata, lerr, werr, sret>>
appvars == <<todo, cur>>

\* the endpoint thread t works on
ConnOf(t) == IF Kind(t) = "call" THEN cur[t] ELSE t[1]
slots == <<onData, onErr, onClosed>>
sync == <<mutex, wg, waiters>>
stream == <<closed, inq, rbuf>>
hist == <<decoded, dataLog, errLog, closedCalls, inData, writes, sendLog, closeSnap, lastReg>>
env == <<mode, quota>>
vars == <<env, locals, appvars, slots, sync, stream, hist>>

\* ------------------------------------------------------- error classification
\* net.Error.Temporary() of an error value
Temporary(e) == e = ErrTemp

\* a faulty hideTempError: every net.Error hidden, without the call of
\* Temporary()
hideTempError_NetError(e) == IF e \in {ErrTemp, ErrClosed} THEN "nil" ELSE e
\* a faulty hideTempError: the error as it came
hideTempError_Shown(e) == e

hideTempError(e) ==
    IF e = "nil" THEN "nil"
    ELSE IF Temporary(e) THEN "nil"
    ELSE e

\* a faulty isClosedConnErrr: no error taken for a closed connection
isClosedConnErrr_Never(e) == FALSE
\* a faulty isClosedConnErrr: every error taken for a closed connection
isClosedConnErrr_Always(e) == TRUE
\* a faulty isClosedConnErrr: without the check of the *net.OpError
isClosedConnErrr_OnlyEOF(e) == e = ErrEOF
\* a faulty isClosedConnErrr: without the check of io.EOF
isClosedConnErrr_OnlyOpError(e) == e = ErrClosed

isClosedConnErrr(e) ==
    IF e = ErrEOF THEN TRUE
    ELSE IF e = ErrClosed THEN TRUE
    ELSE FALSE

\* ------------------------------------------------------------------ Wrap
\* the state Wrap leaves a thread of a wrapped endpoint in
WrapPc(t) == IF Kind(t) = "read" THEN "read" ELSE "none"

\* Wrap of the endpoints in W over a stream of one of the kinds in M; the
\* endpoints outside W stay raw
Wrap(W, M, progs, q) ==
    /\ mode \in M
    /\ quota = [c \in Conns |-> IF c \in W THEN q ELSE 0]
    /\ pc = [t \in Threads |->
                IF t \in CallTs THEN "idle" ELSE IF t[1] \in W THEN WrapPc(t) ELSE "none"]
    /\ ret = [t \in Threads |-> "none"]
    /\ nret = [t \in Threads |-> "none"]
    /\ nslot = [t \in Threads |-> "none"]
    /\ hnd = [t \in Threads |-> Nop]
    /\ ldata = [t \in Threads |-> <<>>]
    /\ lerr = [t \in Threads |-> "nil"]
    /\ sret = [t \in Threads |-> "nil"]
    /\ todo = progs
    /\ cur = [t \in CallTs |-> "A"]
    /\ onData = [c \in Conns |-> Nop]
    /\ onErr = [c \in Conns |-> Nop]
    /\ onClosed = [c \in Conns |-> Nop]
    /\ mutex = [c \in Conns |-> Free]
    /\ wg = [c \in Conns |-> IF c \in W THEN 1 ELSE 0]
    /\ waiters = [c \in Conns |-> 0]
    /\ closed = [c \in Conns |-> FALSE]
    /\ inq = [c \in Conns |-> <<>>]
    /\ rbuf = [c \in Conns |-> <<>>]
    /\ decoded = [c \in Conns |-> <<>>]
    /\ dataLog = [c \in Conns |-> <<>>]
    /\ errLog = [c \in Conns |-> <<>>]
    /\ closedCalls = [c \in Conns |-> 0]
    /\ inData = [c \in Conns |-> 0]
    /\ werr = [t \in Threads |-> "nil"]
    /\ writes = [t \in Threads |-> 0]
    /\ sendLog = [c \in Conns |-> << >>]
    /\ closeSnap = [t \in Threads |-> {}]
    /\ lastReg = [c \in Conns |-> [slot \in {"data", "err", "closed"} |-> "none"]]

\* the kinds of stream a single wrapped endpoint is checked over
StreamKinds == {"mock", "tcp"}

\* one endpoint: A is wrapped; one application goroutine makes any MaxOps
\* calls of Close, Send and SendAsync, the other registers a handler or
\* calls Close
MockProgs ==
    [t \in CallTs |->
        IF t[3] = 1 THEN [i \in 1..MaxOps |-> SendOps("A", Ping) \cup {CloseOp("A")}]
        ELSE <<RegOps("A") \cup {CloseOp("A")}>>]

Init == Wrap({"A"}, StreamKinds, MockProgs, 0)

\* one endpoint, for the properties of fair runs: one application goroutine
\* calls Send or SendAsync and then Close, the other registers an error
\* handler or a closed handler.  Close is called by one goroutine, and by
\* that one after its SendAsync
FairProgs ==
    [t \in CallTs |->
        IF t[3] = 1
        THEN <<SendOps("A", Ping), {CloseOp("A")}>>
        ELSE <<RegOps("A")>>]

FairInit == Wrap({"A"}, StreamKinds, FairProgs, 0)

\* one endpoint, the scenario of TestErr: one application goroutine registers
\* an error handler and a closed handler, calls Close and, when Close has
\* returned, SendAsync MaxAsync times; the other calls Send (as
\* TestUnexpectedErr does) or registers a data handler at any time
ErrProgs ==
    [t \in CallTs |->
        IF t[3] = 1
        THEN <<{<<"OnErr", "rec", "A">>}, {<<"OnClosed", "rec", "A">>}, {CloseOp("A")}>>
             \o [i \in 1..MaxAsync |-> {<<"SendAsync", Ping, "A">>}]
        ELSE <<{<<"Send", Ping, "A">>, <<"OnData", "rec", "A">>}>>]

\* TestErr wraps the two ends of a TCP connection
ErrInit == Wrap({"A"}, {"tcp"}, ErrProgs, 0)
\* the calls of TestErr on a stream of either kind
ErrAnyInit == Wrap({"A"}, StreamKinds, ErrProgs, 0)

\* one endpoint, the scenario of TestNillableHandlers, with a framing function
\* that returns MaxData messages: one application goroutine registers "rec"
\* in MaxOps slots, the other registers nil in a slot and then calls Close or
\* SendAsync
NilProgs ==
    [t \in CallTs |->
        IF t[3] = 1 THEN [i \in 1..MaxOps |-> AllRegOps("A", "rec")]
        ELSE <<AllRegOps("A", NilHandler), {CloseOp("A"), <<"SendAsync", Ping, "A">>}>>]

NilInit == Wrap({"A"}, StreamKinds, NilProgs, MaxData)

\* one endpoint with a framing function that returns MaxData messages: one
\* application goroutine registers "rereg" in the three slots and calls
\* SendAsync and Close
SelfRegProgs ==
    [t \in CallTs |->
        IF t[3] = 1
        THEN <<{<<"OnData", "rereg", "A">>}, {<<"OnErr", "rereg", "A">>},
               {<<"OnClosed", "rereg", "A">>}, {<<"SendAsync", Ping, "A">>},
               {CloseOp("A")}>>
        ELSE << >>]

SelfRegInit == Wrap({"A"}, {"tcp"}, SelfRegProgs, MaxData)

\* one endpoint over TCP: one application goroutine calls SendAsync or
\* Close and then Close twice, the other registers an error handler or calls
\* Send or Close
CloseProgs ==
    [t \in CallTs |->
        IF t[3] = 1
        THEN <<{<<"SendAsync", Ping, "A">>, CloseOp("A")}, {CloseOp("A")}, {CloseOp("A")}>>
        ELSE <<{<<"OnErr", "rec", "A">>, <<"Send", Ping, "A">>, CloseOp("A")}>>]

CloseInit == Wrap({"A"}, {"tcp"}, CloseProgs, 0)

\* one endpoint with a framing function that returns MaxData messages: one
\* application goroutine registers "closing" as data handler and as error
\* handler, the other calls SendAsync and Close
ClosingProgs ==
    [t \in CallTs |->
        IF t[3] = 1
        THEN <<{<<"OnData", "closing", "A">>}, {<<"OnErr", "closing", "A">>}>>
        ELSE <<{<<"SendAsync", Ping, "A">>}, {CloseOp("A")}>>]

ClosingInit == Wrap({"A"}, StreamKinds, ClosingProgs, MaxData)

\* one endpoint with a framing function that returns MaxData messages: one
\* application goroutine registers a data or error handler and then a data
\* or closed handler, the other registers nil as data handler or a closed
\* handler and then calls Close or SendAsync
RegProgs ==
    [t \in CallTs |->
        IF t[3] = 1
        THEN <<DataRegOps("A") \cup {<<"OnErr", "rec", "A">>},
               DataRegOps("A") \cup {<<"OnClosed", "rec", "A">>}>>
        ELSE <<{<<"OnData", NilHandler, "A">>, <<"OnClosed", NilHandler, "A">>},
               {CloseOp("A"), <<"SendAsync", Ping, "A">>}>>]

RegInit == Wrap({"A"}, {"tcp"}, RegProgs, MaxData)

\* one endpoint with a framing function that returns MaxData messages: one
\* application goroutine registers a data handler, the other calls Close
\* or SendAsync
ReadProgs ==
    [t \in CallTs |->
        IF t[3] = 1 THEN <<DataRegOps("A")>>
        ELSE <<{CloseOp("A"), <<"SendAsync", Ping, "A">>}>>]

ReadInit == Wrap({"A"}, StreamKinds, ReadProgs, MaxData)

\* mode "pipe", the wrapping and the call sequence of TestReadAll with
\* handlers that do not reply: one application goroutine registers "rec" on
\* B and on A, sends MaxSend lines from A with Send or SendAsync, waits
\* until B's handler has been called for each, and closes B and A
PairProgs ==
    [t \in CallTs |->
        IF t[3] = 1
        THEN <<{<<"OnData", "rec", "B">>}, {<<"OnData", "rec", "A">>}>>
             \o [i \in 1..MaxSend |-> SendOps("A", Line(i))]
             \o <<{<<"Wait", MaxSend, "A">>}, {CloseOp("B")}, {CloseOp("A")}>>
        ELSE << >>]

PairInit == Wrap(Conns, {"pipe"}, PairProgs, 0)

\* mode "pipe", the scenario of TestReadAll: one application goroutine
\* registers "reply" on B and "rec" on A, sends MaxAsync lines from A with
\* SendAsync, waits until both handlers have been called for each, and
\* closes B and A
ReplyProgs ==
    [t \in CallTs |->
        IF t[3] = 1
        THEN <<{<<"OnData", "reply", "B">>}, {<<"OnData", "rec", "A">>}>>
             \o [i \in 1..MaxAsync |-> {<<"SendAsync", Line(i), "A">>}]
             \o <<{<<"Wait", 2 * MaxAsync, "A">>}, {CloseOp("B")}, {CloseOp("A")}>>
        ELSE << >>]

ReplyInit == Wrap(Conns, {"pipe"}, ReplyProgs, 0)

\* ------------------------------------------------------------- the stream
\* inner.Close()
innerClose(c) == closed' = [closed EXCEPT ![c] = TRUE]

\* mockConn.Write: the error the stream is set up with, nil, a temporary
\* error or a plain one; mockConn.Close changes nothing
MockWrite(c) == {"nil", ErrTemp, ErrWrite}

\* Write of a TCP connection: the closed-connection error once this end is
\* closed; a write to a connection the peer has closed succeeds or fails
TcpWrite(c) ==
    IF closed[c] THEN {ErrClosed}
    ELSE IF mode = "pipe" THEN (IF closed[Peer(c)] THEN {"nil", ErrWrite} ELSE {"nil"})
    ELSE {"nil", ErrTemp, ErrWrite}

\* what c.inner.Write may return on endpoint c
WriteOutcomes(c) == IF mode = "mock" THEN MockWrite(c) ELSE TcpWrite(c)

\* what a framing function returns, <<data, err>>, while the stream lets
\* it: no data or the next message, with any error
OpenReads(c) ==
    {<<<< >>, e>> : e \in {"nil", ErrTemp, ErrEOF, ErrRead}}
    \cup (IF quota[c] > 0
           THEN {<<MockMsg(Len(decoded[c]) + 1), e>> :
                    e \in {"nil", ErrTemp, ErrEOF, ErrRead}}
           ELSE {})

\* a framing function over a stream that takes no note of Close, as
\* createReader over a mockConn and the reader of TestTempError
MockReads(c) == OpenReads(c)

\* a framing function over a TCP connection: the closed-connection error of
\* Read once this end is closed
TcpReads(c) == IF closed[c] THEN {<<<< >>, ErrClosed>>} ELSE OpenReads(c)

\* what the framing function may return on endpoint c in the modes "mock"
\* and "tcp": <<data, err>>
ReaderOutcomes(c) == IF mode = "mock" THEN MockReads(c) ELSE TcpReads(c)

\* ------------------------------------------------------- the public methods
FreeAsync(c) == {a \in AsyncTs(c) : pc[a] = "none"}
NextAsync(c) == CHOOSE a \in FreeAsync(c) : \A b \in FreeAsync(c) : a[3] <= b[3]
SlotOf(method) ==
    IF method = "OnData" THEN "data" ELSE IF method = "OnErr" THEN "err" ELSE "closed"

\* a faulty SendAsync: the go statement without the c.wg.Add(1) before it
SendAsync_NoAdd(t, c, data) ==
    LET a == NextAsync(c)
    IN  /\ FreeAsync(c) /= {}
        /\ wg' = wg
        /\ pc' = [pc EXCEPT ![a] = "send_write"]
        /\ ldata' = [ldata EXCEPT ![a] = data]
        /\ UNCHANGED <<ret, nslot, hnd>>

\* WaitGroup.Add(1) panics ("WaitGroup misuse: Add called concurrently with
\* Wait") when it takes the counter from zero while goroutines that blocked
\* in Wait have not been released
AddMisuse(c) == wg[c] = 0 /\ waiters[c] /= 0

\* SendAsync(data), called by goroutine t: c.wg.Add(1) and the go statement
SendAsync(t, c, data) ==
    LET a == NextAsync(c)
    IN  /\ FreeAsync(c) /= {}
        /\ wg' = [wg EXCEPT ![c] = @ + 1]
        /\ IF AddMisuse(c)
           THEN /\ pc' = [pc EXCEPT ![t] = "panic"]
                /\ UNCHANGED ldata
           ELSE /\ pc' = [pc EXCEPT ![a] = "send_write"]
                /\ ldata' = [ldata EXCEPT ![a] = data]
        /\ UNCHANGED <<ret, nslot, hnd>>

\* thread t enters a public method; the method returns to pc "back"
Call(t, op, back) ==
    LET c == op[3]
    IN  /\ closeSnap' = [closeSnap EXCEPT ![t] =
                            IF op[1] = "Close"
                            THEN {a \in AsyncTs(c) : pc[a] /= "none"}
                            ELSE {}]
        /\ IF op[1] = "SendAsync" THEN SendAsync(t, c, op[2])
           ELSE
           /\ ret' = [ret EXCEPT ![t] = back]
           /\ wg' = wg
           /\ IF op[1] = "Close"
              THEN /\ pc' = [pc EXCEPT ![t] = "cl_close"]
                   /\ UNCHANGED <<ldata, nslot, hnd>>
              ELSE IF op[1] = "Send"
              THEN /\ pc' = [pc EXCEPT ![t] = "send_write"]
                   /\ ldata' = [ldata EXCEPT ![t] = op[2]]
                   /\ UNCHANGED <<nslot, hnd>>
              ELSE /\ pc' = [pc EXCEPT ![t] = "on_lock"]
                   /\ nslot' = [nslot EXCEPT ![t] = SlotOf(op[1])]
                   /\ hnd' = [hnd EXCEPT ![t] = op[2]]
                   /\ UNCHANGED ldata

\* an application goroutine makes its next call
CallerStart(t) ==
    /\ Kind(t) = "call" /\ pc[t] = "idle" /\ todo[t] /= << >>
    /\ \E op \in Head(todo[t]) :
        /\ op[1] /= "Wait"
        /\ Call(t, op, "idle")
        /\ cur' = [cur EXCEPT ![t] = op[3]]
        /\ sendLog' = IF op[1] \in {"Send", "SendAsync"}
                      THEN [sendLog EXCEPT ![op[3]] = Append(@, <<op[1], op[2]>>)]
                      ELSE sendLog
    /\ todo' = [todo EXCEPT ![t] = Tail(@)]
    /\ sret' = [sret EXCEPT ![t] = "nil"]
    /\ UNCHANGED <<env, nret, lerr, werr, slots, mutex, waiters, stream,
                   decoded, dataLog, errLog, closedCalls, inData, writes, lastReg>>

\* data-handler calls of application handlers on c that have returned
AppReturned(c) ==
    Cardinality({i \in 1..(Len(dataLog[c]) - inData[c]) : dataLog[c][i][1] /= Nop})

\* the application's own wait for n calls of its data handlers (the
\* wg.Wait() of the tests, whose handlers call wg.Done() as they return)
CallerWait(t) ==
    /\ Kind(t) = "call" /\ pc[t] = "idle" /\ todo[t] /= << >>
    /\ \E op \in Head(todo[t]) :
        /\ op[1] = "Wait"
        /\ AppReturned("A") + AppReturned("B") >= op[2]
    /\ todo' = [todo EXCEPT ![t] = Tail(@)]
    /\ UNCHANGED <<env, locals, cur, slots, sync, stream, hist>>

\* OnData / OnErr / OnClosed: c.mutex.Lock()
On_Lock(t) ==
    /\ pc[t] = "on_lock" /\ mutex[ConnOf(t)] = Free
    /\ mutex' = [mutex EXCEPT ![ConnOf(t)] = t]
    /\ pc' = [pc EXCEPT ![t] = "on_set"]
    /\ UNCHANGED <<env, ret, nret, nslot, hnd, ldata, lerr, werr, sret,
                   appvars, slots, wg, waiters, stream, hist>>

\* a faulty On*: the handler stored without the nil check
Normalize_Keep(h) == h

\* the handler On* stores: the no-op in place of nil
Normalize(h) == IF h = NilHandler THEN Nop ELSE h

\* OnData / OnErr / OnClosed: the nil check, the assignment, the deferred Unlock
On_Set(t) ==
    LET c == ConnOf(t)
        h == Normalize(hnd[t])
    IN  /\ pc[t] = "on_set"
        /\ onData' = IF nslot[t] = "data" THEN [onData EXCEPT ![c] = h] ELSE onData
        /\ onErr' = IF nslot[t] = "err" THEN [onErr EXCEPT ![c] = h] ELSE onErr
        /\ onClosed' = IF nslot[t] = "closed" THEN [onClosed EXCEPT ![c] = h] ELSE onClosed
        /\ mutex' = [mutex EXCEPT ![c] = Free]
        /\ pc' = [pc EXCEPT ![t] = ret[t]]
        /\ nslot' = IF Kind(t) = "call" THEN [nslot EXCEPT ![t] = "none"] ELSE nslot
        /\ hnd' = [hnd EXCEPT ![t] = Nop]
        /\ lastReg' = [lastReg EXCEPT ![c][nslot[t]] = hnd[t]]
        /\ UNCHANGED <<env, ret, nret, ldata, lerr, werr, sret,
                       appvars, wg, waiters, stream, decoded, dataLog, errLog,
                       closedCalls, inData, writes, sendLog, closeSnap>>

\* Send: c.inner.Write(data)
Send_Write(t) ==
    LET c == ConnOf(t)
    IN  /\ pc[t] = "send_write"
        /\ \E e \in WriteOutcomes(c) :
            /\ werr' = [werr EXCEPT ![t] = e]
            /\ inq' = IF e = "nil" /\ mode = "pipe"
                      THEN [inq EXCEPT ![Peer(c)] = @ \o ldata[t]]
                      ELSE inq
        /\ writes' = IF Kind(t) = "async" THEN [writes EXCEPT ![t] = @ + 1] ELSE writes
        /\ pc' = [pc EXCEPT ![t] = "send_ret"]
        /\ ldata' = [ldata EXCEPT ![t] = << >>]
        /\ UNCHANGED <<env, ret, nret, nslot, hnd, lerr, sret, appvars,
                       slots, sync, closed, rbuf,
                       decoded, dataLog, errLog, closedCalls, inData, sendLog, closeSnap, lastReg>>

\* a faulty Send: the error returned without c.inner.Close()
SendCloses_Never(e) == FALSE

\* Send: if err != nil { c.inner.Close() }
SendCloses(e) == e /= "nil"

\* a faulty SendAsync goroutine: the error of c.Send(data) dropped
AsyncNext_Drop(e) == "as_done"

\* where SendAsync's goroutine goes when its c.Send(data) returned e:
\* into notifyErr, or to the deferred c.wg.Done()
AsyncNext(e) == IF hideTempError(e) /= "nil" THEN "n_lock" ELSE "as_done"

\* Send: hideTempError, inner.Close() on an error, the return.  In
\* SendAsync's goroutine the return runs on to the call of notifyErr
Send_Return(t) ==
    LET c == ConnOf(t)
        e == hideTempError(werr[t])
    IN  /\ pc[t] = "send_ret"
        /\ IF SendCloses(e) THEN innerClose(c) ELSE closed' = closed
        /\ IF Kind(t) = "async"
           THEN /\ pc' = [pc EXCEPT ![t] = AsyncNext(e)]
                /\ IF AsyncNext(e) = "n_lock"
                   THEN /\ nslot' = [nslot EXCEPT ![t] = "err"]
                        /\ nret' = [nret EXCEPT ![t] = "as_done"]
                        /\ lerr' = [lerr EXCEPT ![t] = hideTempError(e)]
                   ELSE UNCHANGED <<nslot, nret, lerr>>
                /\ UNCHANGED <<sret, werr>>
           ELSE /\ pc' = [pc EXCEPT ![t] = ret[t]]
                /\ sret' = [sret EXCEPT ![t] = e]
                /\ werr' = [werr EXCEPT ![t] = "nil"]
                /\ UNCHANGED <<nslot, nret, lerr>>
        /\ UNCHANGED <<env, ret, hnd, ldata, appvars,
                       slots, sync, inq, rbuf, hist>>

\* a faulty Close: c.wg.Wait() without the c.inner.Close() before it
Close_NoClose(t) ==
    /\ pc[t] = "cl_close"
    /\ pc' = [pc EXCEPT ![t] = "cl_wait"]
    /\ UNCHANGED <<env, ret, nret, nslot, hnd, ldata, lerr, werr, sret,
                   appvars, slots, sync, stream, hist>>

\* Close: c.inner.Close()
Close_Close(t) ==
    /\ pc[t] = "cl_close"
    /\ innerClose(ConnOf(t))
    /\ pc' = [pc EXCEPT ![t] = "cl_wait"]
    /\ UNCHANGED <<env, ret, nret, nslot, hnd, ldata, lerr, werr, sret,
                   appvars, slots, sync, inq, rbuf, hist>>

\* a faulty Close: the return without c.wg.Wait()
Close_Wait_NoWait(t) ==
    /\ pc[t] = "cl_wait"
    /\ pc' = [pc EXCEPT ![t] = ret[t]]
    /\ UNCHANGED <<env, ret, nret, nslot, hnd, ldata, lerr, werr, sret,
                   appvars, slots, sync, stream, hist>>

\* Close: c.wg.Wait() is entered.  At counter zero it returns; otherwise
\* the goroutine adds itself to the waiters and blocks on the semaphore
Close_Wait(t) ==
    LET c == ConnOf(t)
    IN  /\ pc[t] = "cl_wait"
        /\ IF wg[c] = 0
           THEN /\ pc' = [pc EXCEPT ![t] = ret[t]]
                /\ waiters' = waiters
           ELSE /\ pc' = [pc EXCEPT ![t] = "cl_sema"]
                /\ waiters' = [waiters EXCEPT ![c] = @ + 1]
        /\ UNCHANGED <<env, ret, nret, nslot, hnd, ldata, lerr, werr, sret,
                       appvars, slots, mutex, wg, stream, hist>>

\* WaitGroup.Wait panics ("WaitGroup is reused before previous Wait has
\* returned") when the goroutine it released finds the counter or the
\* waiters not zero
WaitReused(c) == wg[c] /= 0 \/ waiters[c] /= 0

\* Close: c.wg.Wait() goes on after the semaphore was released, and returns
Close_Woken(t) ==
    LET c == ConnOf(t)
    IN  /\ pc[t] = "cl_woken"
        /\ pc' = [pc EXCEPT ![t] = IF WaitReused(c) THEN "panic" ELSE ret[t]]
        /\ UNCHANGED <<env, ret, nret, nslot, hnd, ldata, lerr, werr, sret,
                       appvars, slots, sync, stream, hist>>

\* --------------------------------------------------------------- notify*
\* thread t calls notifyErr / notifyData / notifyClose, which returns to "back"
Notify(t, slot, back) ==
    /\ pc' = [pc EXCEPT ![t] = "n_lock"]
    /\ nslot' = [nslot EXCEPT ![t] = slot]
    /\ nret' = [nret EXCEPT ![t] = back]

\* notify*: c.mutex.Lock()
Notify_Lock(t) ==
    /\ pc[t] = "n_lock" /\ mutex[ConnOf(t)] = Free
    /\ mutex' = [mutex EXCEPT ![ConnOf(t)] = t]
    /\ pc' = [pc EXCEPT ![t] = "n_snap"]
    /\ UNCHANGED <<env, ret, nret, nslot, hnd, ldata, lerr, werr, sret,
                   appvars, slots, wg, waiters, stream, hist>>

SlotValue(c, slot) ==
    IF slot = "data" THEN onData[c] ELSE IF slot = "err" THEN onErr[c] ELSE onClosed[c]

\* a faulty notify*: the handler value the goroutine had at its start is
\* called, c.on... is not read
Notify_Snap_Stale(t) ==
    /\ pc[t] = "n_snap"
    /\ mutex' = [mutex EXCEPT ![ConnOf(t)] = Free]
    /\ pc' = [pc EXCEPT ![t] = "n_call"]
    /\ UNCHANGED <<env, ret, nret, nslot, hnd, ldata, lerr, werr, sret,
                   appvars, slots, wg, waiters, stream, hist>>

\* a faulty notify*: the mutex is unlocked by a defer, after the handler
Notify_Snap_Locked(t) ==
    /\ pc[t] = "n_snap"
    /\ hnd' = [hnd EXCEPT ![t] = SlotValue(ConnOf(t), nslot[t])]
    /\ pc' = [pc EXCEPT ![t] = "n_call"]
    /\ UNCHANGED <<env, ret, nret, nslot, ldata, lerr, werr, sret,
                   appvars, slots, sync, stream, hist>>

\* notify*: handler := c.on...; c.mutex.Unlock()
Notify_Snap(t) ==
    /\ pc[t] = "n_snap"
    /\ hnd' = [hnd EXCEPT ![t] = SlotValue(ConnOf(t), nslot[t])]
    /\ mutex' = [mutex EXCEPT ![ConnOf(t)] = Free]
    /\ pc' = [pc EXCEPT ![t] = "n_call"]
    /\ UNCHANGED <<env, ret, nret, nslot, ldata, lerr, werr, sret,
                   appvars, slots, wg, waiters, stream, hist>>

\* a faulty notify*: c.on... is read again, without the mutex, when the
\* handler is called
Notify_Call_Late(t) ==
    LET c == ConnOf(t)
        h == SlotValue(c, nslot[t])
    IN  /\ pc[t] = "n_call"
        /\ dataLog' = IF nslot[t] = "data"
                      THEN [dataLog EXCEPT ![c] = Append(@, <<h, ldata[t]>>)]
                      ELSE dataLog
        /\ inData' = IF nslot[t] = "data" THEN [inData EXCEPT ![c] = @ + 1] ELSE inData
        /\ errLog' = IF nslot[t] = "err"
                     THEN [errLog EXCEPT ![c] = Append(@, <<h, lerr[t], t>>)]
                     ELSE errLog
        /\ closedCalls' = IF nslot[t] = "closed"
                          THEN [closedCalls EXCEPT ![c] = @ + 1]
                          ELSE closedCalls
        /\ IF h = "reply"
           THEN /\ pc' = [pc EXCEPT ![t] = "send_write"]
                /\ ret' = [ret EXCEPT ![t] = "h_end"]
                /\ ldata' = [ldata EXCEPT ![t] = Pong]
           ELSE IF h \in {"rereg", "closing"}
           THEN /\ pc' = [pc EXCEPT ![t] = IF h = "rereg" THEN "on_lock" ELSE "cl_close"]
                /\ ret' = [ret EXCEPT ![t] = "h_end"]
                /\ ldata' = [ldata EXCEPT ![t] = << >>]
           ELSE /\ pc' = [pc EXCEPT ![t] = IF h = NilHandler THEN "panic" ELSE "h_end"]
                /\ ldata' = [ldata EXCEPT ![t] = << >>]
                /\ UNCHANGED ret
        /\ hnd' = IF h = "rereg" THEN [hnd EXCEPT ![t] = "rec"] ELSE hnd
        /\ UNCHANGED <<env, nret, nslot, lerr, werr, sret, appvars, slots,
                       sync, stream, decoded, writes, sendLog, closeSnap, lastReg>>

\* notify*: handler(c, ...) is entered.  The "reply" handler calls
\* conn.Send(Pong), "rereg" calls conn.On...("rec") for its own slot (the
\* slot stays in nslot, the argument is passed in hnd), "closing" calls
\* conn.Close(); the others do nothing the wrapper can see; the call of a
\* nil func value panics
Notify_Call(t) ==
    LET c == ConnOf(t)
        h == hnd[t]
    IN  /\ pc[t] = "n_call"
        /\ dataLog' = IF nslot[t] = "data"
                      THEN [dataLog EXCEPT ![c] = Append(@, <<h, ldata[t]>>)]
                      ELSE dataLog
        /\ inData' = IF nslot[t] = "data" THEN [inData EXCEPT ![c] = @ + 1] ELSE inData
        /\ errLog' = IF nslot[t] = "err"
                     THEN [errLog EXCEPT ![c] = Append(@, <<h, lerr[t], t>>)]
                     ELSE errLog
        /\ closedCalls' = IF nslot[t] = "closed"
                          THEN [closedCalls EXCEPT ![c] = @ + 1]
                          ELSE closedCalls
        /\ IF h = "reply"
           THEN /\ pc' = [pc EXCEPT ![t] = "send_write"]
                /\ ret' = [ret EXCEPT ![t] = "h_end"]
                /\ ldata' = [ldata EXCEPT ![t] = Pong]
           ELSE IF h \in {"rereg", "closing"}
           THEN /\ pc' = [pc EXCEPT ![t] = IF h = "rereg" THEN "on_lock" ELSE "cl_close"]
                /\ ret' = [ret EXCEPT ![t] = "h_end"]
                /\ ldata' = [ldata EXCEPT ![t] = << >>]
           ELSE /\ pc' = [pc EXCEPT ![t] = IF h = NilHandler THEN "panic" ELSE "h_end"]
                /\ ldata' = [ldata EXCEPT ![t] = << >>]
                /\ UNCHANGED ret
        /\ hnd' = IF h = "rereg" THEN [hnd EXCEPT ![t] = "rec"] ELSE hnd
        /\ UNCHANGED <<env, nret, nslot, lerr, werr, sret, appvars, slots,
                       sync, stream, decoded, writes, sendLog, closeSnap, lastReg>>

\* notify*: handler(c, ...) returns, and so does notify*
Notify_Return(t) ==
    /\ pc[t] = "h_end"
    /\ inData' = IF nslot[t] = "data" THEN [inData EXCEPT ![ConnOf(t)] = @ - 1] ELSE inData
    /\ pc' = [pc EXCEPT ![t] = nret[t]]
    /\ nret' = [nret EXCEPT ![t] = "none"]
    /\ nslot' = [nslot EXCEPT ![t] = "none"]
    /\ hnd' = [hnd EXCEPT ![t] = Nop]
    /\ UNCHANGED <<env, ret, ldata, lerr, werr, sret, appvars,
                   slots, sync, stream,
                   decoded, dataLog, errLog, closedCalls, writes, sendLog, closeSnap, lastReg>>

\* ---------------------------------------------------- SendAsync's goroutine
\* a faulty goroutine of SendAsync: it ends without c.wg.Done()
Async_Done_Skip(t) ==
    /\ pc[t] = "as_done"
    /\ pc' = [pc EXCEPT ![t] = "done"]
    /\ UNCHANGED <<env, ret, nret, nslot, hnd, ldata, lerr, werr, sret,
                   appvars, slots, sync, stream, hist>>

\* where a goroutine goes from c.wg.Done(): on, or, when it took the
\* counter to zero with goroutines blocked in Wait, to their release
AfterDone(t, next) ==
    IF wg[ConnOf(t)] = 1 /\ waiters[ConnOf(t)] /= 0 THEN "wg_rel" ELSE next

\* the deferred c.wg.Done()
Async_Done(t) ==
    /\ pc[t] = "as_done"
    /\ wg' = [wg EXCEPT ![ConnOf(t)] = @ - 1]
    /\ pc' = [pc EXCEPT ![t] = AfterDone(t, "done")]
    /\ UNCHANGED <<env, ret, nret, nslot, hnd, ldata, lerr, werr, sret,
                   appvars, slots, mutex, waiters, stream, hist>>

\* c.wg.Done() that took the counter to zero: the waiters are reset and
\* every goroutine blocked in Wait is released; SendAsync's goroutine ends,
\* runRead's deferred function goes on
Done_Release(t) ==
    LET c == ConnOf(t)
    IN  /\ pc[t] = "wg_rel"
        /\ waiters' = [waiters EXCEPT ![c] = 0]
        /\ pc' = [u \in Threads |->
                    IF u = t THEN (IF Kind(t) = "read" THEN "d_go" ELSE "done")
                    ELSE IF pc[u] = "cl_sema" /\ ConnOf(u) = c THEN "cl_woken"
                    ELSE pc[u]]
        /\ UNCHANGED <<env, ret, nret, nslot, hnd, ldata, lerr, werr, sret,
                       appvars, slots, mutex, wg, stream, hist>>

\* ------------------------------------------------------------- runRead
\* data, err := c.reader(c.inner) with an arbitrary framing function
Read_Mock(t) ==
    LET c == ConnOf(t)
    IN  /\ pc[t] = "read" /\ mode /= "pipe"
        /\ \E out \in ReaderOutcomes(c) :
            /\ ldata' = [ldata EXCEPT ![t] = out[1]]
            /\ lerr' = [lerr EXCEPT ![t] = out[2]]
            /\ decoded' = IF Len(out[1]) > 0
                          THEN [decoded EXCEPT ![c] = Append(@, out[1])]
                          ELSE decoded
            /\ quota' = IF Len(out[1]) > 0 THEN [quota EXCEPT ![c] = @ - 1] ELSE quota
        /\ pc' = [pc EXCEPT ![t] = "r_chk"]
        /\ UNCHANGED <<mode, ret, nret, nslot, hnd, werr, sret, appvars, slots,
                       sync, stream, dataLog, errLog, closedCalls, inData, writes,
                       sendLog, closeSnap, lastReg>>

\* a faulty ReadLineReader: the line without its terminator
LineOf_NoTerminator(buffer, b) == buffer

\* the line ReadLineReader returns: the buffer with the terminator appended
LineOf(buffer, b) == Append(buffer, b)

\* data, err := c.reader(c.inner) with ReadLineReader: one pass of its loop,
\* rawConn.Read of one byte, append, and the return on the line terminator
ReadLineReader(t) ==
    LET c == ConnOf(t)
        b == Head(inq[c])
    IN  /\ pc[t] = "read" /\ mode = "pipe"
        /\ IF closed[c] \/ (inq[c] = << >> /\ closed[Peer(c)])
           THEN /\ ldata' = [ldata EXCEPT ![t] = << >>]
                /\ lerr' = [lerr EXCEPT ![t] = IF closed[c] THEN ErrClosed ELSE ErrEOF]
                /\ rbuf' = [rbuf EXCEPT ![c] = << >>]
                /\ pc' = [pc EXCEPT ![t] = "r_chk"]
                /\ UNCHANGED <<inq, decoded>>
           ELSE /\ inq[c] /= << >>
                /\ inq' = [inq EXCEPT ![c] = Tail(@)]
                /\ IF b = NL
                   THEN /\ ldata' = [ldata EXCEPT ![t] = LineOf(rbuf[c], b)]
                        /\ lerr' = [lerr EXCEPT ![t] = "nil"]
                        /\ rbuf' = [rbuf EXCEPT ![c] = << >>]
                        /\ decoded' = [decoded EXCEPT ![c] = Append(@, LineOf(rbuf[c], b))]
                        /\ pc' = [pc EXCEPT ![t] = "r_chk"]
                   ELSE /\ rbuf' = [rbuf EXCEPT ![c] = Append(@, b)]
                        /\ UNCHANGED <<ldata, lerr, decoded, pc>>
        /\ UNCHANGED <<env, ret, nret, nslot, hnd, werr, sret, appvars, slots,
                       sync, closed, dataLog, errLog, closedCalls, inData, writes,
                       sendLog, closeSnap, lastReg>>

\* a faulty runRead: notifyData without the check of len(data)
DispatchNeeded_Always(data) == TRUE

\* runRead: if len(data) > 0
DispatchNeeded(data) == Len(data) > 0

\* the body of the loop after the framing function has returned
runRead_Check(t) ==
    LET e == hideTempError(lerr[t])
    IN  /\ pc[t] = "r_chk"
        /\ IF e /= "nil"
           THEN IF isClosedConnErrr(e)
                THEN /\ pc' = [pc EXCEPT ![t] = "d_close"]
                     /\ ldata' = [ldata EXCEPT ![t] = << >>]
                     /\ UNCHANGED <<nslot, nret, lerr>>
                ELSE /\ Notify(t, "err", "d_close")
                     /\ lerr' = [lerr EXCEPT ![t] = e]
                     /\ ldata' = [ldata EXCEPT ![t] = << >>]
           ELSE IF DispatchNeeded(ldata[t])
                THEN /\ Notify(t, "data", "read")
                     /\ lerr' = [lerr EXCEPT ![t] = "nil"]
                     /\ UNCHANGED ldata
                ELSE /\ pc' = [pc EXCEPT ![t] = "read"]
                     /\ lerr' = [lerr EXCEPT ![t] = "nil"]
                     /\ UNCHANGED <<nslot, nret, ldata>>
        /\ UNCHANGED <<env, ret, hnd, werr, sret, appvars, slots, sync,
                       stream, hist>>

\* a faulty deferred function: without c.inner.Close()
Defer_Close_Skip(t) ==
    /\ pc[t] = "d_close"
    /\ pc' = [pc EXCEPT ![t] = "d_done"]
    /\ UNCHANGED <<env, ret, nret, nslot, hnd, ldata, lerr, werr, sret,
                   appvars, slots, sync, stream, hist>>

\* the deferred function: c.inner.Close()
Defer_Close(t) ==
    /\ pc[t] = "d_close"
    /\ innerClose(ConnOf(t))
    /\ pc' = [pc EXCEPT ![t] = "d_done"]
    /\ UNCHANGED <<env, ret, nret, nslot, hnd, ldata, lerr, werr, sret,
                   appvars, slots, sync, inq, rbuf, hist>>

\* the deferred function: c.wg.Done()
Defer_Done(t) ==
    /\ pc[t] = "d_done"
    /\ wg' = [wg EXCEPT ![ConnOf(t)] = @ - 1]
    /\ pc' = [pc EXCEPT ![t] = AfterDone(t, "d_go")]
    /\ UNCHANGED <<env, ret, nret, nslot, hnd, ldata, lerr, werr, sret, appvars,
                   slots, mutex, waiters, stream, hist>>

\* a faulty deferred function: it ends without go c.notifyClose()
Defer_Go_Skip(t) ==
    /\ pc[t] = "d_go"
    /\ pc' = [pc EXCEPT ![t] = "done"]
    /\ UNCHANGED <<env, ret, nret, nslot, hnd, ldata, lerr, werr, sret, appvars,
                   slots, sync, stream, hist>>

\* the deferred function: go c.notifyClose(), its last statement
Defer_Go(t) ==
    LET k == CloserT(ConnOf(t))
    IN  /\ pc[t] = "d_go"
        /\ pc' = [pc EXCEPT ![t] = "done", ![k] = "n_lock"]
        /\ nslot' = [nslot EXCEPT ![k] = "closed"]
        /\ nret' = [nret EXCEPT ![k] = "done"]
        /\ UNCHANGED <<env, ret, hnd, ldata, lerr, werr, sret, appvars, slots,
                       sync, stream, hist>>

\* ------------------------------------------------------------ specification
\* a panic has ended the process
Panicked == \E t \in Threads : pc[t] = "panic"
\* the goroutines that can take a step
Live == IF Panicked THEN {} ELSE Threads

Next ==
    \E t \in Live :
        \/ CallerStart(t)
        \/ On_Lock(t)
        \/ On_Set(t)
        \/ Send_Write(t)
        \/ Send_Return(t)
        \/ Close_Close(t)
        \/ Close_Wait(t)
        \/ Close_Woken(t)
        \/ Notify_Lock(t)
        \/ Notify_Snap(t)
        \/ Notify_Call(t)
        \/ Notify_Return(t)
        \/ Async_Done(t)
        \/ Done_Release(t)
        \/ Read_Mock(t)
        \/ runRead_Check(t)
        \/ Defer_Close(t)
        \/ Defer_Done(t)
        \/ Defer_Go(t)

Spec == Init /\ [][Next]_vars
ReadSpec == ReadInit /\ [][Next]_vars
RegSpec == RegInit /\ [][Next]_vars
ClosingSpec == ClosingInit /\ [][Next]_vars

NilSpec == NilInit /\ [][Next]_vars

\* a step of thread t inside the wrapper: every goroutine that can run
\* eventually runs.  Whether the application makes its next call is its choice
Run(t) ==
    /\ t \in Live
    /\ \/ On_Lock(t) \/ On_Set(t) \/ Send_Write(t) \/ Send_Return(t)
       \/ Close_Close(t) \/ Close_Wait(t) \/ Close_Woken(t)
       \/ Notify_Lock(t) \/ Notify_Snap(t) \/ Notify_Call(t) \/ Notify_Return(t)
       \/ Async_Done(t) \/ Done_Release(t)
       \/ Read_Mock(t) \/ ReadLineReader(t) \/ runRead_Check(t)
       \/ Defer_Close(t) \/ Defer_Done(t) \/ Defer_Go(t)
Fairness == \A t \in Threads : WF_vars(Run(t))
FairSpec == FairInit /\ [][Next]_vars /\ Fairness

NextPair ==
    \E t \in Live :
        \/ CallerStart(t)
        \/ CallerWait(t)
        \/ On_Lock(t)
        \/ On_Set(t)
        \/ Send_Write(t)
        \/ Send_Return(t)
        \/ Close_Close(t)
        \/ Close_Wait(t)
        \/ Close_Woken(t)
        \/ Notify_Lock(t)
        \/ Notify_Snap(t)
        \/ Notify_Call(t)
        \/ Notify_Return(t)
        \/ Async_Done(t)
        \/ Done_Release(t)
        \/ ReadLineReader(t)
        \/ runRead_Check(t)
        \/ Defer_Close(t)
        \/ Defer_Done(t)
        \/ Defer_Go(t)

ErrFairSpec == ErrInit /\ [][Next]_vars /\ Fairness
ErrSpec == ErrAnyInit /\ [][Next]_vars
CloseFairSpec == CloseInit /\ [][Next]_vars /\ Fairness
SelfRegFairSpec == SelfRegInit /\ [][Next]_vars /\ Fairness
PairFairSpec == PairInit /\ [][NextPair]_vars /\ Fairness
ReplyFairSpec == ReplyInit /\ [][NextPair]_vars /\ Fairness

\* ------------------------------------------------------------------ claims
\* the read loop of c has ended: runRead is in its deferred function or gone
ReadEnded(c) == pc[ReadT(c)] \in {"d_close", "d_done", "wg_rel", "d_go", "done"}
\* where a goroutine is when it has given its unit of the wait group back:
\* inside or after its c.wg.Done()
Released == {"wg_rel", "d_go", "done"}
\* where a goroutine is inside c.wg.Wait()
InWait == {"cl_wait", "cl_sema", "cl_woken"}
\* a closed-class error, as the specification defines it
ClosedClass(e) == e \in {ErrEOF, ErrClosed}
\* the error-handler calls made on c by thread t
ErrCallsBy(c, t) == {i \in 1..Len(errLog[c]) : errLog[c][i][3] = t}

\* the steps in which thread t leaves statement p
Leaves(t, p) == pc[t] = p /\ pc'[t] /= p
\* the steps in which the Close() call of thread t returns
CloseReturns(t) == pc[t] \in {"cl_wait", "cl_woken"} /\ pc'[t] = ret[t]

\* C1: on every Connection the closed handler is never called twice, is not
\* called before the read loop has ended, and once the read loop has ended
\* it is eventually called (so exactly once), whatever Close, Send and
\* SendAsync calls interleave; no panic ends the process while that call is
\* outstanding.
C1_ClosedExactlyOnce ==
    /\ [](\A c \in Conns : closedCalls[c] <= 1 /\ (closedCalls[c] = 1 => ReadEnded(c)))
    /\ \A c \in Conns : ReadEnded(c) ~> (closedCalls[c] = 1)
    /\ [](\A c \in Conns : (ReadEnded(c) /\ closedCalls[c] = 0) => ~Panicked)

\* C2: in the step in which a Close() call returns, the read loop of that
\* Connection has stopped and the read task has given its unit back, and
\* every goroutine of a SendAsync call that returned before the Close() call
\* was made has done so too (its write attempt and its error dispatch are
\* over); a read task that has given its unit back calls the framing
\* function no more: it decodes no message and makes no data or error
\* dispatch.
C2_CloseWaitsForWork ==
    [][/\ \A t \in CallTs :
            CloseReturns(t) =>
                /\ wg[cur[t]] = 0
                /\ pc[ReadT(cur[t])] \in Released
                /\ \A a \in closeSnap[t] : pc[a] \in Released /\ writes[a] = 1
       /\ \A c \in Conns :
            pc[ReadT(c)] \in Released =>
                /\ pc'[ReadT(c)] \in Released
                /\ decoded'[c] = decoded[c]
                /\ dataLog'[c] = dataLog[c]
                /\ ErrCallsBy(c, ReadT(c))' = ErrCallsBy(c, ReadT(c))]_vars
\* a Close() call that was made after a SendAsync call has returned, and
\* the read task has not yet started the goroutine of notifyClose
C2_Witness ==
    \E t \in CallTs :
        /\ pc[t] = "idle"
        /\ closeSnap[t] /= {}
        /\ \A a \in closeSnap[t] : writes[a] = 1 /\ pc[a] = "done"
        /\ pc[ReadT("A")] = "d_go" /\ pc[CloserT("A")] = "none"

\* C3: on every Connection at most one data-handler call is running, the
\* k-th data-handler call receives the k-th non-empty message the framing
\* function returned, and whenever the framing function is called again
\* every data-handler call has returned and every message decoded before
\* has been dispatched.
C3_DataInDecodeOrder ==
    \A c \in Conns :
        /\ inData[c] <= 1
        /\ Len(dataLog[c]) <= Len(decoded[c])
        /\ \A k \in 1..Len(dataLog[c]) : dataLog[c][k][2] = decoded[c][k]
        /\ pc[ReadT(c)] = "read" =>
              /\ inData[c] = 0
              /\ Len(dataLog[c]) = Len(decoded[c])
\* an application handler has been called with two messages, in order, and
\* the second call is still running
C3_Witness ==
    /\ Len(dataLog["A"]) = 2
    /\ dataLog["A"][2] = <<"rec", MockMsg(2)>>
    /\ inData["A"] = 1

\* the messages the application has asked c to send
SentBy(c) == {sendLog[c][i][2] : i \in 1..Len(sendLog[c])}
\* the data-handler calls on c that received d
Deliveries(c, d) == {j \in 1..Len(dataLog[c]) : dataLog[c][j][2] = d}
\* the application goroutine that runs the scenario of TestReadAll
Main == <<"app", "call", 1>>

\* C4 as stated: every line A sends with Send or SendAsync is eventually
\* passed to B's data handler, and the j-th call of B's data handler
\* receives the line of A's j-th Send/SendAsync call.
C4_DeliveredInIssueOrder ==
    /\ [](\A j \in 1..Len(dataLog["B"]) :
            /\ j <= Len(sendLog["A"])
            /\ dataLog["B"][j][2] = sendLog["A"][j][2])
    /\ \A k \in 1..MaxSend : (Len(sendLog["A"]) >= k) ~> (Len(dataLog["B"]) >= k)

\* C4 (amended): every line A sends with Send or SendAsync is eventually
\* passed to B's data handler, once and with exactly the sent content, and
\* B's data handler receives nothing else; a line sent with Send is
\* received before every line whose Send or SendAsync call was made later.
\* No order holds between a SendAsync call and the calls made after it.
C4_DeliveredSendInOrder ==
    /\ [](/\ \A j \in 1..Len(dataLog["B"]) : dataLog["B"][j][2] \in SentBy("A")
          /\ \A d \in SentBy("A") : Cardinality(Deliveries("B", d)) <= 1
          /\ \A i, k \in 1..Len(sendLog["A"]) :
                (i < k /\ sendLog["A"][i][1] = "Send") =>
                    \A j \in Deliveries("B", sendLog["A"][k][2]) :
                        \E j2 \in Deliveries("B", sendLog["A"][i][2]) : j2 < j)
    /\ \A k \in 1..MaxSend :
          (Len(sendLog["A"]) >= k) ~> (Cardinality(Deliveries("B", Line(k))) = 1)
\* a line sent with SendAsync has been received after the line of a later
\* Send call
C4_Witness ==
    /\ Len(sendLog["A"]) >= 2 /\ Len(dataLog["B"]) >= 2
    /\ sendLog["A"][1] = <<"SendAsync", Line(1)>>
    /\ dataLog["B"][1][2] = Line(2)
    /\ dataLog["B"][2][2] = Line(1)

\* C5: when B's data handler answers every line with Send(Pong) from inside
\* the handler, B's handler receives exactly the lines A sent, every call of
\* B's handler returns (the read task of B is not blocked forever), A's data
\* handler receives exactly one Pong for every line sent, the Close call on
\* B returns with B's closed handler called, and once Close has been called
\* on both endpoints both calls return and the closed handler of each
\* endpoint has been called exactly once.
C5_RequestReply ==
    /\ [](onData["B"] = "reply" =>
            /\ \A j \in 1..Len(dataLog["B"]) :
                  /\ dataLog["B"][j][1] = "reply"
                  /\ dataLog["B"][j][2] \in SentBy("A")
            /\ \A j \in 1..Len(dataLog["A"]) : dataLog["A"][j] = <<"rec", Pong>>
            /\ Len(dataLog["A"]) <= Len(dataLog["B"])
            /\ \A c \in Conns : closedCalls[c] <= 1)
    /\ \A k \in 1..MaxAsync :
          (onData["B"] = "reply" /\ Len(sendLog["A"]) >= k)
              ~> (Len(dataLog["B"]) >= k /\ Len(dataLog["A"]) >= k)
    /\ (onData["B"] = "reply" /\ inData["B"] = 1) ~> (inData["B"] = 0)
    /\ (onData["B"] = "reply" /\ Len(todo[Main]) <= 1)
          ~> (closedCalls["B"] = 1 /\ (pc[Main] = "idle" \/ cur[Main] = "A"))
    /\ (onData["B"] = "reply" /\ todo[Main] = << >>)
          ~> (pc[Main] = "idle" /\ \A c \in Conns : closedCalls[c] = 1)
\* the scenario has run to its end with a line sent by SendAsync
C5_Witness ==
    /\ onData["B"] = "reply"
    /\ todo[Main] = << >> /\ pc[Main] = "idle"
    /\ sendLog["A"][1][1] = "SendAsync"
    /\ Len(dataLog["A"]) = MaxAsync
    /\ \A c \in Conns : closedCalls[c] = 1

\* a genuine error: neither nil nor temporary
Genuine(e) == e /= "nil" /\ ~Temporary(e)
\* the last Send of application goroutine t failed with a genuine write
\* error on an open stream
SendFailed(t) == pc[t] = "idle" /\ sret[t] = ErrWrite
\* the read task of c will make no error dispatch: the stream is closed and
\* the task is in the framing function, holds a closed-class error, or has
\* left the loop
Quiet(c) ==
    /\ closed[c]
    /\ \/ pc[ReadT(c)] = "read"
       \/ pc[ReadT(c)] = "r_chk" /\ ClosedClass(lerr[ReadT(c)])
       \/ ReadEnded(c)

\* C6: a Send of the application whose write failed with a genuine error
\* returns exactly that error and leaves the stream closed; a Send whose
\* write succeeded returns nil and closes nothing; no step of Send calls the
\* error handler or the closed handler.
C6_SendReturnsError ==
    [][\A t \in CallTs :
          /\ Leaves(t, "send_ret") =>
                /\ Genuine(werr[t]) => (sret'[t] = werr[t] /\ closed'[cur[t]])
                /\ werr[t] = "nil" => (sret'[t] = "nil" /\ closed' = closed)
                /\ pc'[t] = "idle"
                /\ errLog' = errLog /\ closedCalls' = closedCalls
          /\ Leaves(t, "send_write") =>
                /\ pc'[t] = "send_ret"
                /\ closed' = closed
                /\ errLog' = errLog /\ closedCalls' = closedCalls]_vars
\* a Send has returned a genuine write error and the stream is closed, with
\* no handler called
C6_Witness ==
    /\ SendFailed(Main)
    /\ closed["A"]
    /\ errLog["A"] = << >> /\ closedCalls["A"] = 0

\* C7: once a Send has failed with a genuine write error the stream is
\* closed.  On a stream whose reads fail with the closed-connection error
\* once it is closed (a TCP connection, the stream of an otherwise healthy
\* connection): if the read task is then in the framing function it makes
\* no error dispatch from then on; the read task eventually exits and the
\* closed handler is called, once.
C7_SendFailureCloses ==
    /\ [](\A t \in CallTs : SendFailed(t) => closed["A"] /\ closedCalls["A"] <= 1)
    /\ [][\A t \in CallTs :
            (mode = "tcp" /\ SendFailed(t) /\ Quiet("A")) =>
                /\ Quiet("A")'
                /\ ErrCallsBy("A", ReadT("A"))' = ErrCallsBy("A", ReadT("A"))]_vars
    /\ \A t \in CallTs :
          (mode = "tcp" /\ SendFailed(t))
              ~> (pc[ReadT("A")] = "done" /\ closedCalls["A"] = 1)
\* a Send on a TCP connection has failed and no Close() call has been made:
\* the read task has ended without a call of the error handler, and the
\* closed handler has been called
C7_Witness ==
    /\ mode = "tcp"
    /\ SendFailed(Main) /\ Len(todo[Main]) = 1
    /\ pc[ReadT("A")] = "done"
    /\ errLog["A"] = << >>
    /\ closedCalls["A"] = 1

\* C8: no error handler is ever called with a temporary error; a Send whose
\* write failed with a temporary error returns nil, the goroutine of a
\* SendAsync whose write failed with one goes on to its end without a
\* dispatch, the read loop that got one from the framing function goes on
\* (to the dispatch of the data, if any, and then to the next call of the
\* framing function); none of these steps closes the stream.
C8_TransientInvisible ==
    [][/\ \A c \in Conns : \A i \in 1..Len(errLog'[c]) : ~Temporary(errLog'[c][i][2])
       /\ \A t \in CallTs :
            (Leaves(t, "send_ret") /\ Temporary(werr[t])) =>
                (sret'[t] = "nil" /\ closed' = closed)
       /\ \A c \in Conns : \A a \in AsyncTs(c) :
            (Leaves(a, "send_ret") /\ Temporary(werr[a])) =>
                (pc'[a] = "as_done" /\ closed' = closed /\ errLog' = errLog)
       /\ \A c \in Conns :
            (Leaves(ReadT(c), "r_chk") /\ Temporary(lerr[ReadT(c)])) =>
                /\ closed' = closed /\ errLog' = errLog
                /\ \/ pc'[ReadT(c)] = "read"
                   \/ /\ pc'[ReadT(c)] = "n_lock"
                      /\ nslot'[ReadT(c)] = "data"
                      /\ nret'[ReadT(c)] = "read"]_vars
\* the goroutine of a SendAsync has ended after a temporary write error:
\* the stream is open and no handler has been called
C8_Witness ==
    \E a \in AsyncTs("A") :
        /\ pc[a] = "done" /\ werr[a] = ErrTemp
        /\ ~closed["A"]
        /\ errLog["A"] = << >>

\* the goroutines of c that hold a unit of the wait group
Counted(c) ==
    {t \in AsyncTs(c) \cup {ReadT(c)} : pc[t] \notin {"none"} \cup Released}

\* C9: the goroutine of a SendAsync call calls Write once; when it has
\* ended, the error handler has been called by it once, with the error of
\* the write, and the stream is closed if the write failed with a genuine
\* error, and has not been called by it otherwise; while the process runs
\* the wait group counts exactly the goroutines that have not come to their
\* c.wg.Done(), so each releases one unit.
C9_AsyncSendOnce ==
    \A c \in Conns :
        /\ ~Panicked => wg[c] = Cardinality(Counted(c))
        /\ \A a \in AsyncTs(c) :
            /\ writes[a] <= 1
            /\ Cardinality(ErrCallsBy(c, a)) <= 1
            /\ pc[a] = "done" =>
                /\ writes[a] = 1
                /\ IF Genuine(werr[a])
                   THEN /\ closed[c]
                        /\ \E i \in ErrCallsBy(c, a) : errLog[c][i][2] = werr[a]
                   ELSE ErrCallsBy(c, a) = {}
\* the goroutine of a SendAsync has ended after a genuine write error, the
\* application's error handler was called with it, and the unit is released
C9_Witness ==
    \E a \in AsyncTs("A") :
        /\ pc[a] = "done" /\ werr[a] = ErrWrite
        /\ errLog["A"] = << <<"rec", ErrWrite, a>> >>
        /\ wg["A"] = Cardinality(Counted("A"))
        /\ pc[ReadT("A")] = "read"

\* C10: a read loop that got a closed-class error from the framing function
\* leaves the loop in that step without an error dispatch; a read task that
\* ended on a closed-class error has made no error dispatch at all; the
\* stream is then eventually closed and the closed handler called, once.
C10_ClosedClassStopsLoop ==
    /\ [][\A c \in Conns :
            (Leaves(ReadT(c), "r_chk") /\ ClosedClass(lerr[ReadT(c)])) =>
                (pc'[ReadT(c)] = "d_close" /\ errLog' = errLog)]_vars
    /\ [](\A c \in Conns :
            (ReadEnded(c) /\ ClosedClass(lerr[ReadT(c)])) =>
                (ErrCallsBy(c, ReadT(c)) = {} /\ closedCalls[c] <= 1))
    /\ \A c \in Conns :
          (ReadEnded(c) /\ ClosedClass(lerr[ReadT(c)]))
              ~> (closed[c] /\ pc[ReadT(c)] = "done" /\ closedCalls[c] = 1)
\* the read task ended on end-of-stream with no Close call: the stream is
\* closed, the closed handler was called and the error handler was not
C10_Witness ==
    /\ pc[ReadT("A")] = "done" /\ lerr[ReadT("A")] = ErrEOF
    /\ closed["A"] /\ closedCalls["A"] = 1
    /\ errLog["A"] = << >>
    /\ \A t \in CallTs : cur[t] = "A" /\ pc[t] = "idle" /\ closeSnap[t] = {} /\ sret[t] = "nil"

\* the read task of c holds a genuine error of the framing function that is
\* not of the closed class
GenuineRead(c) ==
    /\ pc[ReadT(c)] /= "read"
    /\ Genuine(lerr[ReadT(c)]) /\ ~ClosedClass(lerr[ReadT(c)])

\* C11: a read task that got a genuine error of the framing function, not
\* of the closed class, goes into the dispatch of that error and never
\* calls the framing function again; it calls the error handler at most
\* once, with that error, and exactly once before it leaves the loop; the
\* closed handler is not called before the read task has left the loop (so
\* after the error handler returned); the stream is then eventually closed
\* and the closed handler called, once.
C11_GenuineReadError ==
    /\ [][\A c \in Conns :
            /\ (Leaves(ReadT(c), "r_chk") /\ GenuineRead(c)) =>
                  /\ pc'[ReadT(c)] = "n_lock" /\ nslot'[ReadT(c)] = "err"
                  /\ lerr'[ReadT(c)] = lerr[ReadT(c)]
            /\ GenuineRead(c) =>
                  /\ GenuineRead(c)'
                  /\ decoded'[c] = decoded[c] /\ dataLog'[c] = dataLog[c]]_vars
    /\ [](\A c \in Conns :
            GenuineRead(c) =>
                /\ \A i \in ErrCallsBy(c, ReadT(c)) : errLog[c][i][2] = lerr[ReadT(c)]
                /\ Cardinality(ErrCallsBy(c, ReadT(c))) <= 1
                /\ ReadEnded(c) => Cardinality(ErrCallsBy(c, ReadT(c))) = 1
                /\ ~ReadEnded(c) => closedCalls[c] = 0
                /\ closedCalls[c] <= 1)
    /\ \A c \in Conns :
          GenuineRead(c) ~> (closed[c] /\ pc[ReadT(c)] = "done" /\ closedCalls[c] = 1)
\* the read task ended on a genuine error: the application's error handler
\* was called once with it, the stream is closed and the closed handler
\* was called
C11_Witness ==
    /\ pc[ReadT("A")] = "done"
    /\ errLog["A"] = << <<"rec", ErrRead, ReadT("A")>> >>
    /\ closed["A"] /\ closedCalls["A"] = 1

\* the handler slots of c
SlotSet(c) == {onData[c], onErr[c], onClosed[c]}

\* C12: the three handler slots hold the no-op when Wrap returns and never
\* hold nil: a registration of nil stores the no-op, any other registration
\* stores its handler; no dispatch calls nil and no goroutine panics; a
\* dispatch that found the no-op returns to where it was called from with
\* nothing written and nothing closed.
C12_SlotsCallable ==
    /\ \A c \in {"A"} : SlotSet(c) = {Nop}
    /\ [](/\ \A c \in Conns : NilHandler \notin SlotSet(c)
          /\ \A t \in Threads : pc[t] /= "panic"
          /\ \A t \in Threads : pc[t] = "n_call" => hnd[t] /= NilHandler)
    /\ [][\A t \in Threads :
            /\ Leaves(t, "on_set") =>
                  (IF nslot[t] = "data" THEN onData'[ConnOf(t)]
                   ELSE IF nslot[t] = "err" THEN onErr'[ConnOf(t)]
                   ELSE onClosed'[ConnOf(t)]) =
                      (IF hnd[t] = NilHandler THEN Nop ELSE hnd[t])
            /\ (Leaves(t, "n_call") /\ hnd[t] = Nop) =>
                  /\ pc'[t] = "h_end"
                  /\ closed' = closed /\ inq' = inq /\ wg' = wg
            /\ (Leaves(t, "h_end") /\ hnd[t] = Nop) => pc'[t] = nret[t]]_vars
\* nil was registered over the application's data handler, and a message
\* decoded after that was dropped by the no-op
C12_Witness ==
    /\ Len(dataLog["A"]) = 2
    /\ dataLog["A"][1][1] = "rec" /\ dataLog["A"][2][1] = Nop
    /\ pc[ReadT("A")] = "read"
    /\ \A t \in Threads : pc[t] /= "panic"

\* C13: in the scenario of TestErr every SendAsync call is made after the
\* Close call of the same goroutine has returned.  Its goroutine calls
\* Write once, on the closed stream; on a TCP connection, the stream of
\* TestErr, that write gets the closed-connection error.  When the
\* goroutine has ended after a write that failed with a genuine error, the
\* registered error handler has been called by it exactly once, with that
\* error (and not at all after a write the stream let succeed); it
\* eventually ends, and the closed handler is eventually called, once.
C13_SendAsyncAfterClose ==
    /\ [](\A a \in AsyncTs("A") :
            /\ pc[a] /= "none" => closed["A"]
            /\ writes[a] <= 1
            /\ (mode = "tcp" /\ writes[a] = 1) => werr[a] = ErrClosed
            /\ Cardinality(ErrCallsBy("A", a)) <= 1
            /\ \A i \in ErrCallsBy("A", a) :
                  errLog["A"][i] = <<"rec", werr[a], a>> /\ Genuine(werr[a])
            /\ pc[a] = "done" =>
                  /\ writes[a] = 1
                  /\ Cardinality(ErrCallsBy("A", a)) = (IF Genuine(werr[a]) THEN 1 ELSE 0)
            /\ closedCalls["A"] <= 1)
    /\ \A a \in AsyncTs("A") :
          (pc[a] /= "none") ~> (pc[a] = "done" /\ closedCalls["A"] = 1)
\* the goroutine of a SendAsync made after Close returned has ended: the
\* error handler and the closed handler have been called once each
C13_Witness ==
    /\ mode = "tcp"
    /\ Len(todo[Main]) < MaxAsync
    /\ \E a \in AsyncTs("A") :
          /\ pc[a] = "done" /\ writes[a] = 1
          /\ errLog["A"] = << <<"rec", ErrClosed, a>> >>
    /\ closedCalls["A"] = 1

\* C14 as stated: no error handler call, by any goroutine, receives an
\* error of the closed class.
C14_NoClosedClassToHandler ==
    \A c \in Conns : \A i \in 1..Len(errLog[c]) : ~ClosedClass(errLog[c][i][2])

\* C14 (amended): the error handler is called only by the read task and by
\* the goroutines of SendAsync, never by Send; no call made by the read
\* task receives an error of the closed class, and a read task that holds
\* one has made no call.
C14_ClosedClassOnlyFromSendAsync ==
    \A c \in Conns :
        /\ \A i \in 1..Len(errLog[c]) :
              /\ Kind(errLog[c][i][3]) \in {"read", "async"}
              /\ Kind(errLog[c][i][3]) = "read" => ~ClosedClass(errLog[c][i][2])
        /\ ClosedClass(lerr[ReadT(c)]) => ErrCallsBy(c, ReadT(c)) = {}
\* the read task ended on the closed-connection error without a call of the
\* error handler, and the goroutine of a SendAsync called the error handler
\* with the closed-connection error
C14_Witness ==
    /\ pc[ReadT("A")] = "done" /\ lerr[ReadT("A")] = ErrClosed
    /\ \E a \in AsyncTs("A") : \E h \in {Nop, "rec"} :
          errLog["A"] = << <<h, ErrClosed, a>> >>

\* in the scenario of TestErr: the Close call of Main has returned
CloseReturned == Len(todo[Main]) <= MaxAsync /\ pc[Main] = "idle"

\* C15 as stated: once Close has returned, no data handler and no error
\* handler is called on the Connection, whatever is called afterwards.
C15_NoEventAfterClose ==
    [][CloseReturned => (dataLog'["A"] = dataLog["A"] /\ errLog'["A"] = errLog["A"])]_vars

\* C15 (amended): once Close has returned, the read task decodes nothing and
\* calls neither the data handler nor the error handler; every later call of
\* the error handler is made by the goroutine of a SendAsync called after
\* Close returned, with the genuine error of its write (on a TCP connection
\* the closed-connection error), once per goroutine; the closed handler is
\* called at most once.
C15_OnlySendAsyncAfterClose ==
    [][CloseReturned =>
          /\ CloseReturned'
          /\ pc'[ReadT("A")] \in Released
          /\ decoded'["A"] = decoded["A"] /\ dataLog'["A"] = dataLog["A"]
          /\ ErrCallsBy("A", ReadT("A"))' = ErrCallsBy("A", ReadT("A"))
          /\ errLog'["A"] /= errLog["A"] =>
                \E a \in AsyncTs("A") :
                    /\ ErrCallsBy("A", a) = {}
                    /\ Genuine(werr[a])
                    /\ mode = "tcp" => werr[a] = ErrClosed
                    /\ errLog'["A"] = Append(errLog["A"], <<onErr["A"], werr[a], a>>)
          /\ closedCalls'["A"] <= 1]_vars
\* after Close returned a SendAsync has called the error handler, and the
\* closed handler has been called
C15_Witness ==
    /\ CloseReturned
    /\ \E a \in AsyncTs("A") : ErrCallsBy("A", a) /= {}
    /\ closedCalls["A"] = 1

\* C16: in the step in which the closed handler of c is called the stream
\* of c is closed and the read task of c has exited; from that step on the
\* read task stays exited: no message is decoded and no data handler called.
C16_ClosedAfterReadLoop ==
    [][\A c \in Conns :
          /\ closedCalls'[c] /= closedCalls[c] =>
                (closed[c] /\ pc[ReadT(c)] = "done" /\ inData[c] = 0)
          /\ closedCalls[c] >= 1 =>
                /\ closed'[c] /\ pc'[ReadT(c)] = "done"
                /\ decoded'[c] = decoded[c] /\ dataLog'[c] = dataLog[c]]_vars
\* the closed handler has been called after a read loop that dispatched a
\* message and ended on end-of-stream
C16_Witness ==
    /\ closedCalls["A"] = 1
    /\ Len(dataLog["A"]) >= 1
    /\ lerr[ReadT("A")] = ErrEOF
    /\ \A t \in CallTs : pc[t] = "idle" /\ todo[t] /= << >>

\* C17: in the step in which a Close() call returns, the closed handler of
\* that Connection has already been called.
C17_ClosedBeforeCloseReturns ==
    [][\A t \in CallTs : CloseReturns(t) => closedCalls[ConnOf(t)] >= 1]_vars
\* C17 as the code has it: in the step in which a Close() call returns, the
\* stream is closed, the read loop has ended and the read task has given
\* its unit back; the goroutine of notifyClose may not have called the
\* closed handler yet, nor even have been started.  The read task starts it
\* as its last statement, after c.wg.Done(): it runs, and the closed handler
\* is called, only when the read task has exited, and never a second time.
C17_ClosedNotifyAfterDone ==
    /\ [][\A t \in CallTs : CloseReturns(t) =>
              /\ closed[ConnOf(t)]
              /\ pc[ReadT(ConnOf(t))] \in Released
              /\ closedCalls[ConnOf(t)] <= 1]_vars
    /\ [](\A c \in Conns :
            /\ closedCalls[c] <= 1
            /\ (pc[CloserT(c)] /= "none" \/ closedCalls[c] = 1) => pc[ReadT(c)] = "done")
\* Close() has returned to the test while the read task has not yet
\* started the goroutine of notifyClose
C17_Witness ==
    /\ CloseReturned
    /\ closedCalls["A"] = 0
    /\ pc[ReadT("A")] = "d_go" /\ pc[CloserT("A")] = "none"

\* the goroutines the wrapper starts for c that have been started and have
\* not exited: the read task, the SendAsync goroutines, notifyClose
Spawned(c) ==
    {t \in AsyncTs(c) \cup {ReadT(c), CloserT(c)} : pc[t] \notin {"none", "done"}}

\* C18: whenever the WaitGroup counter of c is zero, no goroutine the
\* wrapper started for c (read task, SendAsync goroutine, notifyClose) is
\* running or waiting to call a handler.
C18_ZeroMeansNoTask ==
    \A c \in Conns : wg[c] = 0 => Spawned(c) = {}
\* C18 as the code has it: the read task and every SendAsync goroutine hold
\* one unit of the WaitGroup counter from their start to their c.wg.Done().
\* That is the last statement of a SendAsync goroutine, and in the read
\* task it comes after the loop and c.inner.Close() and before the go
\* statement that starts notifyClose.  So when the counter is zero no
\* SendAsync goroutine is at work and the read task is past its loop, but
\* the read task can still be about to start notifyClose; the goroutine of
\* notifyClose holds no unit and can be running while the counter is zero.
C18_ZeroMeansNoCountedTask ==
    \A c \in Conns :
        /\ wg[c] >= 0
        /\ \A t \in AsyncTs(c) \cup {ReadT(c)} :
              pc[t] \notin {"none"} \cup Released => wg[c] >= 1
        /\ wg[c] = 0 =>
              /\ \A a \in AsyncTs(c) : pc[a] \in {"none"} \cup Released
              /\ pc[ReadT(c)] \in {"none"} \cup Released
        /\ pc[CloserT(c)] /= "none" => pc[ReadT(c)] = "done"
\* the counter is zero after a SendAsync goroutine has run and exited, a
\* Close() call has returned, and the read task has not yet started the
\* goroutine of notifyClose
C18_Witness ==
    /\ wg["A"] = 0
    /\ \E a \in AsyncTs("A") : pc[a] = "done"
    /\ \E t \in CallTs : pc[t] = "idle" /\ closeSnap[t] /= {}
    /\ pc[ReadT("A")] = "d_go" /\ pc[CloserT("A")] = "none"

\* the handler the registrations that have returned leave active in a slot
\* of c: the argument of the last one, the no-op for nil and before the first
Registered(c, slot) ==
    IF lastReg[c][slot] \in {"none", NilHandler} THEN Nop ELSE lastReg[c][slot]

\* C19: a dispatch takes its snapshot while it holds the mutex, and the
\* snapshot is the handler of the registration for that slot that returned
\* last before it (the no-op if that registered nil or none has returned), a
\* whole handler value; the snapshot does not change until the call, and
\* the call made is the call of the snapshot, with the dispatched data or
\* error, whatever is registered in between.
C19_SnapshotDispatch ==
    [][\A t \in Threads \ CallTs :
          LET c == ConnOf(t)
          IN  /\ Leaves(t, "n_snap") =>
                    /\ mutex[c] = t
                    /\ hnd'[t] = Registered(c, nslot[t])
                    /\ hnd'[t] \in {Nop, "rec", "reply"}
              /\ (pc[t] = "n_call" /\ pc'[t] = "n_call") => hnd'[t] = hnd[t]
              /\ Leaves(t, "n_call") =>
                    /\ nslot[t] = "data" =>
                          dataLog'[c] = Append(dataLog[c], <<hnd[t], ldata[t]>>)
                    /\ nslot[t] = "err" =>
                          errLog'[c] = Append(errLog[c], <<hnd[t], lerr[t], t>>)
                    /\ nslot[t] = "closed" => closedCalls'[c] = closedCalls[c] + 1
                    /\ (pc'[t] = "send_write") = (hnd[t] = "reply")]_vars
\* "rec" was called for the first message and "reply", registered after
\* it, for the second, and a third registration for the data slot has
\* returned while the second call was under way or after it
C19_Witness ==
    /\ Len(dataLog["A"]) = 2
    /\ dataLog["A"][1][1] = "rec" /\ dataLog["A"][2][1] = "reply"
    /\ lastReg["A"]["data"] = NilHandler /\ onData["A"] = Nop

\* C20: when the framing function has returned a transient error, the read
\* loop goes straight to the next call of the framing function: it starts
\* no dispatch, not of the error and not of bytes returned with it.
C20_TransientDispatchesNothing ==
    [][\A c \in Conns :
          (Leaves(ReadT(c), "r_chk") /\ Temporary(lerr[ReadT(c)])) =>
              /\ pc'[ReadT(c)] = "read"
              /\ nslot'[ReadT(c)] = "none"]_vars
\* C20 as the code has it: when the framing function has returned a
\* transient error, the read loop treats the call as one without error: the
\* error handler is not called and the stream stays open; bytes returned
\* with the error are dispatched to the data handler and the framing
\* function is called again when that call has returned; with no bytes the
\* framing function is called again at once.
C20_TransientAsNoError ==
    [][\A c \in Conns :
          LET t == ReadT(c)
          IN  (Leaves(t, "r_chk") /\ Temporary(lerr[t])) =>
                /\ closed' = closed /\ errLog' = errLog /\ lerr'[t] = "nil"
                /\ IF Len(ldata[t]) > 0
                   THEN /\ pc'[t] = "n_lock" /\ nslot'[t] = "data" /\ nret'[t] = "read"
                        /\ ldata'[t] = ldata[t]
                        /\ ldata[t] = decoded[c][Len(decoded[c])]
                   ELSE pc'[t] = "read" /\ nslot'[t] = "none"]_vars
\* the framing function has returned a second message together with a
\* transient error, while an application data handler is registered that
\* has been called with the first message
C20_Witness ==
    /\ pc[ReadT("A")] = "r_chk"
    /\ lerr[ReadT("A")] = ErrTemp
    /\ Len(ldata[ReadT("A")]) > 0
    /\ Len(dataLog["A"]) = 1 /\ Len(decoded["A"]) = 2
    /\ onData["A"] = "rec"

\* the goroutines of the wrapper: the read tasks, the SendAsync goroutines
\* and the goroutines of notifyClose
Tasks == Threads \ CallTs

\* C21: a goroutine that calls a handler, and one that runs a handler, does
\* not hold the mutex; a handler that calls On* for its own slot on the same
\* Connection gets the mutex, stores the new handler and returns; on the
\* data slot every call after a call of that handler is a call of the
\* handler it registered; whenever a goroutine is in such a registration or
\* about to return from a handler, a state follows in which every handler
\* call has got through its registration and has returned.
C21_HandlerMayRegister ==
    /\ [](\A t \in Tasks :
            pc[t] \in {"n_call", "h_end", "on_lock"} => mutex[ConnOf(t)] /= t)
    /\ [][\A t \in Tasks : Leaves(t, "on_set") =>
              /\ hnd[t] = "rec" /\ pc'[t] = "h_end"
              /\ mutex'[ConnOf(t)] = Free
              /\ lastReg'[ConnOf(t)][nslot[t]] = "rec"
              /\ IF nslot[t] = "data" THEN onData'[ConnOf(t)] = "rec"
                 ELSE IF nslot[t] = "err" THEN onErr'[ConnOf(t)] = "rec"
                 ELSE onClosed'[ConnOf(t)] = "rec"]_vars
    /\ [](\A c \in Conns : \A j, k \in 1..Len(dataLog[c]) :
            (j < k /\ dataLog[c][j][1] = "rereg") => dataLog[c][k][1] = "rec")
    /\ (\E t \in Tasks : pc[t] \in {"on_lock", "on_set", "h_end"})
          ~> (\A t \in Tasks : pc[t] \notin {"on_lock", "on_set", "h_end"})
\* the data handler "rereg" was called for the first message and the
\* handler it registered for the second; the error handler and the closed
\* handler have registered too, and all goroutines have exited
C21_Witness ==
    /\ Len(dataLog["A"]) = 2
    /\ dataLog["A"][1][1] = "rereg" /\ dataLog["A"][2][1] = "rec"
    /\ \E i \in 1..Len(errLog["A"]) : errLog["A"][i][1] = "rereg"
    /\ onErr["A"] = "rec" /\ onClosed["A"] = "rec" /\ closedCalls["A"] = 1
    /\ \A t \in Tasks : t[1] = "A" => pc[t] = "done"

\* C22: with a stream whose reads fail with the closed-connection error
\* once it is closed, and every goroutine that can run running eventually,
\* every Close() call of an application goroutine returns: a Close() after
\* a Close() that returned, and Close() calls made while another Close(), a
\* Send() or a SendAsync() is under way; no Close() call panics and no panic
\* ends the process while a Close() call is under way.
C22_CloseReturns ==
    /\ \A t \in CallTs : (pc[t] \in {"cl_close"} \cup InWait) ~> (pc[t] = "idle")
    /\ [](\A t \in CallTs : pc[t] \in {"cl_close"} \cup InWait => ~Panicked)
    /\ [](\A t \in CallTs : pc[t] /= "panic")

\* the goroutines of c that hold a unit of the wait group while they run
CountedTasks(c) == AsyncTs(c) \cup {ReadT(c)}

\* C23: a Close() call made by a handler on the read task or on the
\* goroutine of a SendAsync does not return: while that goroutine is in
\* c.wg.Wait() the counter is at least one, its own unit, so the call finds
\* the counter non-zero, blocks, is never woken, and the goroutine stays in
\* c.wg.Wait(); no panic ends it there.
C23_CloseInHandlerBlocks ==
    /\ [](\A c \in Conns : \A t \in CountedTasks(c) :
            pc[t] \in {"cl_close"} \cup InWait =>
                /\ wg[c] >= 1 /\ ret[t] = "h_end"
                /\ pc[t] /= "cl_woken"
                /\ ~Panicked)
    /\ [][\A c \in Conns : \A t \in CountedTasks(c) :
            /\ pc[t] = "cl_wait" => pc'[t] \in {"cl_wait", "cl_sema"}
            /\ pc[t] = "cl_sema" => pc'[t] = "cl_sema"]_vars
\* the read task is blocked in the Close() of its data handler, the
\* goroutine of a SendAsync in the Close() of its error handler, and the
\* application goroutine that called Close() is blocked with them
C23_Witness ==
    /\ pc[ReadT("A")] = "cl_sema" /\ nslot[ReadT("A")] = "data"
    /\ \E a \in AsyncTs("A") : pc[a] = "cl_sema" /\ nslot[a] = "err"
    /\ pc[<<"app", "call", 2>>] = "cl_sema"
    /\ wg["A"] = 2 /\ waiters["A"] = 3

\* C24: nothing is queued or replayed.  A dispatch begins only with a new
\* event: a return of the framing function, a failed write of a SendAsync
\* goroutine, the go statement at the exit of the read task; the call it makes is the call of
\* its snapshot, the no-op included, whatever is registered after the
\* snapshot; calls recorded are never made again, the goroutine of
\* notifyClose never runs again when it has ended, and there is no second
\* closed-handler call.
C24_NoQueueNoReplay ==
    /\ [](\A c \in Conns : Len(dataLog[c]) <= Len(decoded[c]) /\ closedCalls[c] <= 1)
    /\ [][\A t \in Tasks :
            LET c == ConnOf(t)
            IN  /\ (pc[t] /= "n_lock" /\ pc'[t] = "n_lock") =>
                      \/ Kind(t) = "read" /\ pc[t] = "r_chk"
                      \/ Kind(t) = "async" /\ pc[t] = "send_ret"
                      \/ Kind(t) = "closer" /\ pc[t] = "none" /\ Leaves(ReadT(c), "d_go")
                /\ (Leaves(t, "n_call") /\ nslot[t] = "data") =>
                      /\ Len(dataLog'[c]) = Len(dataLog[c]) + 1
                      /\ dataLog'[c][Len(dataLog'[c])][1] = hnd[t]
                /\ (Leaves(t, "n_call") /\ nslot[t] = "err") =>
                      /\ Len(errLog'[c]) = Len(errLog[c]) + 1
                      /\ errLog'[c][Len(errLog'[c])][1] = hnd[t]
                /\ \A i \in 1..Len(dataLog[c]) : dataLog'[c][i] = dataLog[c][i]
                /\ \A i \in 1..Len(errLog[c]) : errLog'[c][i] = errLog[c][i]
                /\ closedCalls'[c] >= closedCalls[c]
                /\ (Kind(t) = "closer" /\ pc[t] = "done") => pc'[t] = "done"]_vars
\* the first message went to the no-op and "rec", registered since, has not
\* been called with it; the closed notification is in the no-op it took as
\* its snapshot while "rec" is registered as closed handler
C24_Witness ==
    /\ Len(dataLog["A"]) >= 1 /\ dataLog["A"][1][1] = Nop
    /\ onData["A"] = "rec"
    /\ \A i \in 1..Len(dataLog["A"]) : dataLog["A"][i][1] = "rec" => dataLog["A"][i][2] /= decoded["A"][1]
    /\ pc[CloserT("A")] = "h_end" /\ hnd[CloserT("A")] = Nop
    /\ onClosed["A"] = "rec"

\* a Close() call on c has blocked in c.wg.Wait() and has not returned
Waiting(c) == \E u \in Threads : pc[u] \in {"cl_sema", "cl_woken"} /\ ConnOf(u) = c

\* C25: no step of SendAsync takes the WaitGroup counter of c from zero to
\* one while a Close() call on c is in c.wg.Wait(): with the read task
\* exited and a Close() waiting, no c.wg.Add(1) is made, and so neither
\* c.wg.Add(1) nor c.wg.Wait() panics.
C25_NoAddFromZeroWhileWaiting ==
    /\ [][\A c \in Conns :
            (wg[c] = 0 /\ Waiting(c)) => wg'[c] = 0]_vars
    /\ [](~Panicked)
====
